---- MODULE Spec2Model ----
(***************************************************************************)
(* A model of nothrow (src/src/index.ts): the Result union, the            *)
(* constructors ok and err, the predicates isErr and isOk, and the         *)
(* wrappers safe and safeAsync.                                            *)
(*                                                                         *)
(* JavaScript values are records [t, s, f]: t is the kind of value, s its  *)
(* primitive payload (the text of a string or number), f its own           *)
(* properties (a function from property names to primitives).  Property    *)
(* values are primitives [t, s].                                           *)
(***************************************************************************)
EXTENDS Naturals, FiniteSets, Sequences, TLC

----------------------------------------------------------------------------
(* Primitives, used as property values.                                    *)

Prim(t, s) == [t |-> t, s |-> s]
PUndefined == Prim("undefined", "undefined")
PNull == Prim("null", "null")
PFalse == Prim("boolean", "false")
PTrue == Prim("boolean", "true")
PStr(x) == Prim("string", x)
PNum(x) == Prim("number", x)

(* The empty property map. *)
NoFields == [n \in {} |-> PUndefined]

(* One-property map and the JavaScript values. *)
Field(n, p) == [x \in {n} |-> p]
Val(t, s, f) == [t |-> t, s |-> s, f |-> f]
Undefined == Val("undefined", "undefined", NoFields)
Null == Val("null", "null", NoFields)
Bool(b) == Val("boolean", b, NoFields)
Num(x) == Val("number", x, NoFields)
Str(x) == Val("string", x, NoFields)
Obj(f) == Val("object", "", f)
Arr(elems, f) == Val("array", elems, f)
ErrorObj(msg) == Val("error", "", Field("message", PStr(msg)))

(* A primitive as a value. *)
FromPrim(p) == Val(p.t, p.s, NoFields)

(* Later properties win, as in an object literal { ...a, ...b }. *)
Merge(f, g) ==
  [n \in (DOMAIN f) \cup (DOMAIN g) |-> IF n \in DOMAIN g THEN g[n] ELSE f[n]]

(* typeof v *)
TypeOf(v) ==
  IF v.t \in {"null", "array", "error", "object"} THEN "object" ELSE v.t

(* name in v, for a v that typeof calls an object and that is not null *)
HasProperty(v, name) == name \in DOMAIN v.f

(* v[name] for a v that is neither null nor undefined: an own property,   *)
(* else undefined (none of the names read here is on a built-in prototype *)
(* of the values drawn below).                                            *)
Get(v, name) == IF name \in DOMAIN v.f THEN v.f[name] ELSE PUndefined

(* The own enumerable properties an object spread copies.  An Error's     *)
(* message is not enumerable.                                             *)
Spread(v) ==
  IF v.t = "object" THEN v.f
  ELSE IF v.t = "array" THEN v.f
  ELSE NoFields

(* String(v) *)
ToStr(v) ==
  CASE v.t = "error" -> "Error: " \o v.f["message"].s
    [] v.t = "object" -> "[object Object]"
    [] OTHER -> v.s

----------------------------------------------------------------------------
(* Completions: a call returns a value or throws one.                      *)

Normal(v) == [kind |-> "return", val |-> v]
Throw(e) == [kind |-> "throw", val |-> e]

----------------------------------------------------------------------------
(* The library.                                                            *)

(* ok, were it to wrap the value in an envelope. *)
okEnvelope(value) == Obj(Merge(Field("ok", PTrue), Field("value", PStr(ToStr(value)))))

(* return value; *)
ok(value) == value

(* { ok: false, ...reason, stack: new Error().stack! }; st is the trace   *)
(* new Error() captured.                                                  *)
err(reason, st) ==
  Obj(Merge(Merge(Field("ok", PFalse), Spread(reason)), Field("stack", PStr(st))))

(* isErr, were it to test only that the marker is there. *)
isErrNoMarkerTest(r) == TypeOf(r) = "object" /\ r # Null /\ HasProperty(r, "ok")

(* typeof r === "object" && r !== null && "ok" in r && r.ok === false *)
isErr(r) ==
  /\ TypeOf(r) = "object"
  /\ r # Null
  /\ HasProperty(r, "ok")
  /\ Get(r, "ok") = PFalse

(* !isErr(r) *)
isOk(r) == ~isErr(r)

----------------------------------------------------------------------------
(* Error mappers.  "default" is the default parameter of safe and          *)
(* safeAsync; the others are mappers a caller may supply.                  *)

(* The TypeError a property read on null or undefined throws. *)
TypeErrorReading(e, name) ==
  ErrorObj("Cannot read properties of " \o e.s \o " (reading '" \o name \o "')")

(* (e as Error).message *)
MessageOf(e) ==
  IF e.t \in {"null", "undefined"}
  THEN Throw(TypeErrorReading(e, "message"))
  ELSE Normal(FromPrim(Get(e, "message")))

(* (e) => ({ reason: (e as Error).message } as E) *)
defaultMapError(e) ==
  LET m == MessageOf(e) IN
  IF m.kind = "throw" THEN m
  ELSE Normal(Obj(Field("reason", Prim(m.val.t, m.val.s))))

(* (e) => ({ reason: 'DB_QUERY_ERROR', details: (e as Error).message }) *)
detailsMapError(e) ==
  LET m == MessageOf(e) IN
  IF m.kind = "throw" THEN m
  ELSE Normal(Obj(Merge(Field("reason", PStr("DB_QUERY_ERROR")),
                        Field("details", Prim(m.val.t, m.val.s)))))

(* The mappers a caller supplies. *)
Mappers == {"details", "string", "keepsStack", "setsOk", "throwing"}

ApplyMapper(mapError, e) ==
  CASE mapError = "default" -> defaultMapError(e)
    [] mapError = "details" -> detailsMapError(e)
    [] mapError = "string" -> Normal(Obj(Field("reason", PStr(ToStr(e)))))
    [] mapError = "keepsStack" ->
         Normal(Obj(Merge(Field("reason", PStr("failed")),
                          Field("stack", PStr("trace of the original throw")))))
    [] mapError = "setsOk" ->
         Normal(Obj(Merge(Field("reason", PStr("failed")), Field("ok", PTrue))))
    [] mapError = "throwing" -> Throw(ErrorObj("mapper failed"))

----------------------------------------------------------------------------
(* safe.  fn is what the callable does when invoked (returns a value or   *)
(* throws one); st is the trace err captures if it runs.  The result      *)
(* carries how safe completed and how often fn and mapError were invoked. *)

Trace(completion, fnCalls, mapCalls, mapArg) ==
  [completion |-> completion, fnCalls |-> fnCalls,
   mapCalls |-> mapCalls, mapArg |-> mapArg]

(* The catch, were it to return mapError(e) without err. *)
CatchUnwrapped(e, mapError, st) ==
  LET m == ApplyMapper(mapError, e) IN Trace(m, 1, 1, e)

(* catch (e) { return err(mapError(e)); } *)
Catch(e, mapError, st) ==
  LET m == ApplyMapper(mapError, e) IN
  Trace(IF m.kind = "throw" THEN m ELSE Normal(err(m.val, st)), 1, 1, e)

(* try { return ok(fn()); } catch (e) { ... } *)
safe(fn, mapError, st) ==
  IF fn.kind = "return"
  THEN Trace(Normal(ok(fn.val)), 1, 0, Undefined)
  ELSE Catch(fn.val, mapError, st)

----------------------------------------------------------------------------
(* Inputs.                                                                 *)

(* Traces new Error().stack may hold: opaque, non-empty text. *)
StackTraces == {"Error at err (index.ts:18)", "Error at err (index.ts:18) at safe (index.ts:48)"}

(* Values of the marker property of an object handed to the predicates. *)
MarkerValues == {PFalse, PTrue, PNull, PUndefined, PNum("0"), PStr("false"), PStr("")}

(* Property maps: each name of a map absent or bound to one of its values. *)
Maps(choices) ==
  UNION {[D -> UNION {choices[n] : n \in DOMAIN choices}] : D \in SUBSET DOMAIN choices}

WellFormed(f, choices) == \A n \in DOMAIN f : f[n] \in choices[n]

PropertyMaps(choices) == {f \in Maps(choices) : WellFormed(f, choices)}

(* Plain objects with or without a marker. *)
PlainObjects ==
  {Obj(f) : f \in PropertyMaps([ok |-> MarkerValues,
                                reason |-> {PStr("r")},
                                b |-> {PStr("test")}])}

(* The shapes handed to err: objects with a reason, and possibly details, *)
(* an ok or a stack of their own.                                          *)
ReasonShapes ==
  {Obj(Merge(f, Field("reason", r))) :
     f \in PropertyMaps([ok |-> {PFalse, PTrue},
                         stack |-> {PStr("trace of the original throw")},
                         details |-> {PStr("d")}]),
     r \in {PStr("r"), PStr("X")}}

Primitives ==
  {Undefined, Null, Bool("true"), Bool("false"), Num("42"), Num("0"), Num("7"),
   Str("raw"), Str("")}

Arrays == {Arr("", NoFields), Arr("1,2", NoFields), Arr("1,2", Field("ok", PFalse))}

Errors == {ErrorObj("boom"), ErrorObj("x")}

(* Every value the predicates and ok are applied to. *)
Values ==
  Primitives \cup Arrays \cup Errors \cup PlainObjects
    \cup {err(s, st) : s \in ReasonShapes, st \in StackTraces}

(* What a callable may return, and what it may throw. *)
Returned ==
  {Num("42"), Num("7"), Null, Undefined, Str("raw"), Arr("1,2", NoFields),
   Obj(Field("b", PStr("test"))), Obj(Field("ok", PTrue)),
   Obj(Merge(Field("ok", PFalse), Field("reason", PStr("r"))))}

Thrown ==
  {ErrorObj("boom"), ErrorObj("x"), Str("raw"), Num("42"), Null, Undefined,
   Obj(Field("message", PStr("m"))), Obj(Field("code", PStr("E1")))}

FnBehaviours == {Normal(v) : v \in Returned} \cup {Throw(e) : e \in Thrown}

----------------------------------------------------------------------------
(* State.  op is the last synchronous call made from the main flow and    *)
(* what it produced.  calls holds the calls made by independent flows:    *)
(* each flow makes one call, safe or safeAsync, and a safeAsync call      *)
(* stays suspended at its await until the promise fn returned settles.    *)

VARIABLES op, calls

vars == <<op, calls>>

NoCompletion == [kind |-> "none", val |-> Undefined]

Op(name, arg, fn, mapError, st, res) ==
  [name |-> name, arg |-> arg, fn |-> fn, mapError |-> mapError, st |-> st,
   res |-> res]

NoTrace == Trace(NoCompletion, 0, 0, Undefined)

(* A promise: pending, fulfilled with val or rejected with val. *)
Promise(kind, val) == [kind |-> kind, val |-> val]
NoPromise == Promise("none", Undefined)
Pending == Promise("pending", Undefined)
Settled(p) == p.kind \in {"fulfilled", "rejected"}

(* fn() returned a promise. *)
ReturnsPromise == [kind |-> "promise", val |-> Undefined]

Call(pc, api, fn, mapError, st, inner, outer, res) ==
  [pc |-> pc, api |-> api, fn |-> fn, mapError |-> mapError, st |-> st,
   inner |-> inner, outer |-> outer, res |-> res]

Idle == Call("idle", "none", NoCompletion, "none", "", NoPromise, NoPromise, NoTrace)

NumCalls == 2
Calls == 1..NumCalls

Init ==
  /\ op = Op("none", Undefined, NoCompletion, "none", "", NoTrace)
  /\ calls = [i \in Calls |-> Idle]

----------------------------------------------------------------------------
(* The synchronous calls of the main flow.                                 *)

(* ok(v) *)
CallOk ==
  /\ \E v \in Values :
       op' = Op("ok", v, NoCompletion, "none", "",
                Trace(Normal(ok(v)), 0, 0, Undefined))
  /\ UNCHANGED calls

(* err(s) *)
CallErr ==
  /\ \E s \in ReasonShapes, st \in StackTraces :
       op' = Op("err", s, NoCompletion, "none", st,
                Trace(Normal(err(s, st)), 0, 0, Undefined))
  /\ UNCHANGED calls

(* isErr(v) *)
CallIsErr ==
  /\ \E v \in Values :
       op' = Op("isErr", v, NoCompletion, "none", "",
                Trace(Normal(Bool(IF isErr(v) THEN "true" ELSE "false")),
                      0, 0, Undefined))
  /\ UNCHANGED calls

(* isOk(v) *)
CallIsOk ==
  /\ \E v \in Values :
       op' = Op("isOk", v, NoCompletion, "none", "",
                Trace(Normal(Bool(IF isOk(v) THEN "true" ELSE "false")),
                      0, 0, Undefined))
  /\ UNCHANGED calls

(* safe(fn): mapError takes its default *)
CallSafe ==
  /\ \E fn \in FnBehaviours, st \in StackTraces :
       op' = Op("safe", Undefined, fn, "default", st, safe(fn, "default", st))
  /\ UNCHANGED calls

(* safe(fn, mapError) *)
CallSafeMapped ==
  /\ \E fn \in FnBehaviours, mapError \in Mappers, st \in StackTraces :
       op' = Op("safe", Undefined, fn, mapError, st, safe(fn, mapError, st))
  /\ UNCHANGED calls

Next == CallOk \/ CallErr \/ CallIsErr \/ CallIsOk \/ CallSafe \/ CallSafeMapped

Spec == Init /\ [][Next]_vars

----------------------------------------------------------------------------
(* safeAsync, and calls in flight together.                                *)

(* An async function's promise: fulfilled by a return, rejected by a      *)
(* throw that leaves the function.                                        *)
AsyncResult(completion) ==
  IF completion.kind = "return" THEN Promise("fulfilled", completion.val)
  ELSE Promise("rejected", completion.val)

(* try { ... await fn() ... }: fn is invoked; a throw from fn itself goes *)
(* to the catch at once, a returned promise suspends the call.            *)
safeAsyncEnter(fn, mapError, st) ==
  IF fn.kind = "throw"
  THEN LET r == Catch(fn.val, mapError, st) IN
       Call("done", "safeAsync", fn, mapError, st, NoPromise,
            AsyncResult(r.completion), r)
  ELSE Call("awaiting", "safeAsync", fn, mapError, st, Pending, Pending,
            Trace(NoCompletion, 1, 0, Undefined))

(* The awaited promise, were it kept in a variable the calls share. *)
AwaitedOfAnyCall(cs, i) ==
  IF \E j \in DOMAIN cs : j # i /\ Settled(cs[j].inner)
  THEN cs[CHOOSE j \in DOMAIN cs : j # i /\ Settled(cs[j].inner)].inner
  ELSE cs[i].inner

(* The promise call i awaits: the one its own fn() returned. *)
Awaited(cs, i) == cs[i].inner

(* The call resumes when the awaited promise has settled: return ok(v) on *)
(* fulfilment, the catch on rejection.                                    *)
safeAsyncResume(c, awaited) ==
  LET r == IF awaited.kind = "fulfilled"
           THEN Trace(Normal(ok(awaited.val)), 1, 0, Undefined)
           ELSE Catch(awaited.val, c.mapError, c.st)
  IN Call("done", "safeAsync", c.fn, c.mapError, c.st, c.inner,
          AsyncResult(r.completion), r)

(* Inputs of the calls in flight. *)
AsyncStackTraces == {"Error at err (index.ts:18) at safeAsync (index.ts:66)"}
AsyncMappers == {"details", "string"}
AsyncReturned == {Num("7"), Obj(Merge(Field("ok", PFalse), Field("reason", PStr("r"))))}
AsyncThrown == {ErrorObj("x"), Str("raw"), Null}
AsyncOutcomes ==
  {Promise("fulfilled", v) : v \in AsyncReturned}
    \cup {Promise("rejected", e) : e \in AsyncThrown}

(* A flow calls safe(fn) or safe(fn, mapError). *)
StartSafe(i) ==
  /\ calls[i].pc = "idle"
  /\ \E fn \in {Normal(v) : v \in AsyncReturned} \cup {Throw(e) : e \in AsyncThrown},
        mapError \in {"default"} \cup AsyncMappers, st \in AsyncStackTraces :
       calls' = [calls EXCEPT ![i] =
                   Call("done", "safe", fn, mapError, st, NoPromise, NoPromise,
                        safe(fn, mapError, st))]
  /\ UNCHANGED op

(* A flow calls safeAsync(fn). *)
StartSafeAsync(i) ==
  /\ calls[i].pc = "idle"
  /\ \E fn \in {ReturnsPromise} \cup {Throw(e) : e \in AsyncThrown},
        st \in AsyncStackTraces :
       calls' = [calls EXCEPT ![i] = safeAsyncEnter(fn, "default", st)]
  /\ UNCHANGED op

(* A flow calls safeAsync(fn, mapError). *)
StartSafeAsyncMapped(i) ==
  /\ calls[i].pc = "idle"
  /\ \E fn \in {ReturnsPromise} \cup {Throw(e) : e \in AsyncThrown},
        mapError \in AsyncMappers, st \in AsyncStackTraces :
       calls' = [calls EXCEPT ![i] = safeAsyncEnter(fn, mapError, st)]
  /\ UNCHANGED op

(* The wrapped operation settles its promise, whenever it likes. *)
Settle(i) ==
  /\ calls[i].inner = Pending
  /\ \E p \in AsyncOutcomes : calls' = [calls EXCEPT ![i].inner = p]
  /\ UNCHANGED op

(* The scheduler resumes a call whose awaited promise has settled. *)
Resume(i) ==
  /\ calls[i].pc = "awaiting"
  /\ Settled(Awaited(calls, i))
  /\ calls' = [calls EXCEPT ![i] = safeAsyncResume(calls[i], Awaited(calls, i))]
  /\ UNCHANGED op

AsyncNext ==
  \E i \in Calls :
    \/ StartSafeAsync(i)
    \/ StartSafeAsyncMapped(i)
    \/ StartSafe(i)
    \/ Settle(i)
    \/ Resume(i)

AsyncSpec == Init /\ [][AsyncNext]_vars

(* The scheduler runs every continuation whose promise has settled. *)
FairAsyncSpec == AsyncSpec /\ \A i \in Calls : WF_vars(Resume(i))

----------------------------------------------------------------------------
(* Properties of the synchronous calls, checked under Spec.                *)

(* A non-null object that has the marker property ok equal to false. *)
MarkedFailure(v) ==
  /\ v.t \in {"object", "array", "error"}
  /\ "ok" \in DOMAIN v.f
  /\ v.f["ok"] = PFalse

Returns(o) == o.res.completion.kind = "return"
Result(o) == o.res.completion.val
True == Bool("true")
False == Bool("false")

(* C1: safe(fn, mapError) returns a Result for every fn and every mapper, *)
(* the default one included: no exception reaches the caller.             *)
C1_SafeIsTotal == op.name = "safe" => Returns(op)

(* C3: isErr(v) is true exactly for the non-null objects whose ok is      *)
(* false, isOk(v) is true exactly for every other value, and neither      *)
(* predicate throws.                                                      *)
C3_Predicates ==
  /\ op.name = "isErr" =>
       /\ Returns(op)
       /\ Result(op) = (IF MarkedFailure(op.arg) THEN True ELSE False)
  /\ op.name = "isOk" =>
       /\ Returns(op)
       /\ Result(op) = (IF MarkedFailure(op.arg) THEN False ELSE True)

C3_Witness ==
  /\ op.name = "isOk"
  /\ op.arg = Obj(Field("ok", PStr("false")))
  /\ Result(op) = True

(* C4: for every shape s with a reason, whatever else it carries (an ok   *)
(* or a stack of its own included), err(s) has the marker false, the      *)
(* reason of s and the non-empty trace this call captured, so isErr of it *)
(* is true and isOk of it false.                                          *)
C4_ErrBuildsFailure ==
  op.name = "err" =>
    /\ Returns(op)
    /\ Get(Result(op), "ok") = PFalse
    /\ Get(Result(op), "reason") = Get(op.arg, "reason")
    /\ Get(Result(op), "stack") = PStr(op.st)
    /\ op.st # ""
    /\ isErr(Result(op))
    /\ ~isOk(Result(op))

(* An exception object carrying a message. *)
CarriesMessage(e) == e.t \in {"error", "object"} /\ "message" \in DOMAIN e.f

(* C5: without a mapper, the failure's reason is the message of the       *)
(* thrown value when it carries one, and its string form otherwise.       *)
C5_DefaultReason ==
  (op.name = "safe" /\ op.mapError = "default" /\ op.fn.kind = "throw") =>
    /\ Returns(op)
    /\ Get(Result(op), "reason") =
         (IF CarriesMessage(op.fn.val) THEN Get(op.fn.val, "message")
          ELSE PStr(ToStr(op.fn.val)))

(* C6: when fn completes normally with v, safe returns v itself, as ok(v) *)
(* does, after one invocation of fn and none of the mapper.               *)
C6_SuccessUnwrapped ==
  /\ op.name = "ok" => (Returns(op) /\ Result(op) = op.arg)
  /\ (op.name = "safe" /\ op.fn.kind = "return") =>
       /\ Returns(op)
       /\ Result(op) = op.fn.val
       /\ op.res.fnCalls = 1
       /\ op.res.mapCalls = 0

C6_Witness ==
  /\ op.name = "safe"
  /\ op.fn = Normal(Obj(Field("b", PStr("test"))))
  /\ op.mapError = "details"
  /\ Result(op) = Obj(Field("b", PStr("test")))

(* C7: when fn throws e and the supplied mapper maps it, fn is invoked    *)
(* once, the mapper once with e, and safe returns a failure record (its   *)
(* marker false) carrying the reason and every other property of          *)
(* mapper(e), with the trace captured at the catch.                       *)
C7_MappedFailure ==
  (/\ op.name = "safe" /\ op.mapError # "default" /\ op.fn.kind = "throw"
   /\ ApplyMapper(op.mapError, op.fn.val).kind = "return") =>
    /\ op.res.fnCalls = 1
    /\ op.res.mapCalls = 1
    /\ op.res.mapArg = op.fn.val
    /\ Returns(op)
    /\ LET m == ApplyMapper(op.mapError, op.fn.val).val IN
       /\ Get(Result(op), "ok") = PFalse
       /\ \A n \in (DOMAIN m.f) \ {"stack"} : Get(Result(op), n) = m.f[n]
       /\ Get(Result(op), "stack") = PStr(op.st)

----------------------------------------------------------------------------
(* Properties of the calls in flight, checked under AsyncSpec.             *)

(* The callable of call c raised: it threw, or its promise rejected. *)
Raised(c) == c.fn.kind = "throw" \/ c.inner.kind = "rejected"

(* What the callable of a finished call c raised, or completed with. *)
Outcome(c) ==
  IF c.fn.kind \in {"throw", "return"} THEN c.fn.val ELSE c.inner.val

(* Call c has finished and handed a Result to its caller. *)
HasResult(c) == c.pc = "done" /\ c.res.completion.kind = "return"

(* C2: the promise safeAsync returns never rejects, and it is fulfilled   *)
(* once the call has run to its end, whether fn threw before returning a  *)
(* promise or its promise fulfilled or rejected.                          *)
C2_OuterNeverRejects ==
  \A i \in Calls :
    calls[i].api = "safeAsync" =>
      /\ calls[i].outer.kind # "rejected"
      /\ calls[i].pc = "done" => calls[i].outer.kind = "fulfilled"

(* What a call's own callable and own mapper determine. *)
OwnCompletion(c) ==
  IF Raised(c)
  THEN LET m == ApplyMapper(c.mapError, Outcome(c)) IN
       IF m.kind = "throw" THEN m ELSE Normal(err(m.val, c.st))
  ELSE Normal(Outcome(c))

OwnResults ==
  \A i \in Calls :
    calls[i].pc = "done" =>
      /\ calls[i].res.completion = OwnCompletion(calls[i])
      /\ calls[i].api = "safeAsync" =>
           calls[i].outer = AsyncResult(OwnCompletion(calls[i]))

(* A step of one call leaves every other call, and the main flow, as they *)
(* were, and a finished call keeps its result.                            *)
NoInterference ==
  /\ \A i, j \in Calls : (i # j /\ calls'[i] # calls[i]) => calls'[j] = calls[j]
  /\ \A i \in Calls : calls[i].pc = "done" => calls'[i] = calls[i]
  /\ calls' # calls => op' = op

(* C8: with several calls in flight, settling in any order, each call's   *)
(* completion is the one its own callable's outcome and its own mapper    *)
(* determine, and no step of one call changes another call.               *)
C8_Independent == []OwnResults /\ [][NoInterference]_vars

C8_Witness ==
  /\ calls[1].pc = "awaiting"
  /\ calls[1].inner = Promise("fulfilled", Num("7"))
  /\ calls[2].pc = "done"
  /\ calls[2].api = "safeAsync"
  /\ calls[2].inner = Promise("rejected", ErrorObj("x"))
  /\ calls[2].mapError = "details"
  /\ Get(calls[2].res.completion.val, "details") = PStr("x")

(* C9: the outer promise stays pending while the awaited promise is       *)
(* pending, and once the call has resumed it is fulfilled: with v if the  *)
(* awaited promise fulfilled with v, with err(mapError(e)) if it rejected *)
(* with e.                                                                *)
C9_SettlesAfterAwaited ==
  \A i \in Calls :
    (calls[i].api = "safeAsync" /\ calls[i].fn = ReturnsPromise) =>
      /\ calls[i].inner = Pending => calls[i].outer = Pending
      /\ (calls[i].pc = "done" /\ calls[i].inner.kind = "fulfilled") =>
           calls[i].outer = Promise("fulfilled", calls[i].inner.val)
      /\ (calls[i].pc = "done" /\ calls[i].inner.kind = "rejected") =>
           calls[i].outer =
             Promise("fulfilled",
                     err(ApplyMapper(calls[i].mapError, calls[i].inner.val).val,
                         calls[i].st))

(* C9, the progress part: a settled awaited promise leads to a fulfilled  *)
(* outer promise.                                                         *)
C9_EventuallyFulfils ==
  \A i \in Calls :
    Settled(calls[i].inner) ~> (calls[i].outer.kind = "fulfilled")

(* The scheduler does resume the call: a settled awaited promise leads to *)
(* a settled outer promise.                                               *)
EventuallySettles ==
  \A i \in Calls : Settled(calls[i].inner) ~> Settled(calls[i].outer)

====
